---- MODULE Spec2Model ----
(***************************************************************************)
(* Model of notebooks/ODD/data_processing_notebook_ODD.ipynb: the ODD      *)
(* pipeline process_odd_data (load -> filter -> clean -> drop ACTO ->      *)
(* zone-enrich, one CSV artifact per stage) and its helpers                *)
(* load_odd_data, clean_party_name and get_zone.                           *)
(*                                                                         *)
(* A Python str is a sequence of one-character strings, so that split,    *)
(* replace, endswith, lower and join are computed as Python computes      *)
(* them. A DataFrame is a record of its column names (in order) and its   *)
(* rows (in order), a row being a function from column name to cell.      *)
(* The cell of the notebook defines four functions; the variable `call`   *)
(* says which of them the run under study invokes.                        *)
(***************************************************************************)
EXTENDS Integers, Sequences, FiniteSets, TLC

VARIABLES
    call,                \* the function that is invoked
    pc,                  \* position inside the invoked function
    folder,              \* os.listdir(odd_folder) with each file's content
    department,          \* parameter department
    mapping_dir,         \* the files of mapping_dir: file name -> content
    hashseed,            \* str hash order of the running interpreter
    i,                   \* load_odd_data: index of the next file of the listing
    all_data,            \* load_odd_data: the list all_data
    combined_data,       \* process_odd_data: combined_data
    department_odd_data, \* process_odd_data: department_odd_data
    series_to_zona,      \* process_odd_data: series_to_zona
    disk,                \* the CSV files written: path -> DataFrame written
    writes,              \* the paths written, in the order of the writes
    stdout,              \* what print() has reported
    arg,                 \* argument of a direct call of a helper
    ret,                 \* values returned by the direct calls, in order
    run                  \* number of the interpreter process (1, 2, ...)

vars == <<call, pc, folder, department, mapping_dir, hashseed, i, all_data,
          combined_data, department_odd_data, series_to_zona, disk, writes,
          stdout, arg, ret, run>>

(***************************************************************************)
(* Bounds of the model.                                                    *)
(***************************************************************************)
MaxFiles == 2         \* files in the input folder
MaxRows == 1          \* data rows of one spreadsheet
MaxTokens == 3        \* tokens a party-name input is built from
MaxSeriesTokens == 3  \* tokens a series input is built from

(***************************************************************************)
(* String literals of the source.                                          *)
(***************************************************************************)
Delim == <<"_","-","_">>                          \* '_-_'
Suffix == <<" ","O",".","D",".","D",".">>         \* ' O.D.D.'
Unknown == <<"U","n","k","n","o","w","n">>        \* 'Unknown'
XlsxExt == <<".","x","l","s","x">>                \* '.xlsx'
NaN == <<"NaN">>                                  \* the float nan of pandas
None == [kind |-> "None"]

Range(s) == {s[k] : k \in 1..Len(s)}

Upper == <<"A","B","C","D","E","F","G","H","I","J","K","L","M",
           "N","O","P","Q","R","S","T","U","V","W","X","Y","Z">>
Lower == <<"a","b","c","d","e","f","g","h","i","j","k","l","m",
           "n","o","p","q","r","s","t","u","v","w","x","y","z">>

(***************************************************************************)
(* Python str methods.                                                     *)
(***************************************************************************)
\* s.find(sub, from): lowest index >= from where sub starts, 0 when none
RECURSIVE str_find(_, _, _)
str_find(s, sub, from) ==
    IF from + Len(sub) - 1 > Len(s) THEN 0
    ELSE IF SubSeq(s, from, from + Len(sub) - 1) = sub THEN from
    ELSE str_find(s, sub, from + 1)

\* s.split(sep): the list of the parts between the occurrences of sep
RECURSIVE str_split(_, _)
str_split(s, sep) ==
    LET at == str_find(s, sep, 1)
    IN IF at = 0 THEN <<s>>
       ELSE <<SubSeq(s, 1, at - 1)>>
             \o str_split(SubSeq(s, at + Len(sep), Len(s)), sep)

\* s.replace(old, new) with count = 1
str_replace_first(s, old, new) ==
    LET at == str_find(s, old, 1)
    IN IF at = 0 THEN s
       ELSE SubSeq(s, 1, at - 1) \o new \o SubSeq(s, at + Len(old), Len(s))

\* s.replace(old, new): one left-to-right pass over the occurrences of old
RECURSIVE str_replace(_, _, _)
str_replace(s, old, new) ==
    LET at == str_find(s, old, 1)
    IN IF at = 0 THEN s
       ELSE SubSeq(s, 1, at - 1) \o new
             \o str_replace(SubSeq(s, at + Len(old), Len(s)), old, new)

\* an endswith that ignores case
str_endswith_nocase(s, suffix) ==
    /\ Len(suffix) <= Len(s)
    /\ \A k \in 1..Len(suffix) :
          LET c == s[Len(s) - Len(suffix) + k]
          IN c = suffix[k] \/ (c \in Range(Upper) /\ suffix[k] \in Range(Lower)
                                /\ \E n \in 1..Len(Upper) : Upper[n] = c /\ Lower[n] = suffix[k])

\* s.endswith(suffix)
str_endswith(s, suffix) ==
    /\ Len(suffix) <= Len(s)
    /\ SubSeq(s, Len(s) - Len(suffix) + 1, Len(s)) = suffix

IsSpace(c) == c \in {" ", "\t", "\n"}

\* s.split(): the words between runs of whitespace, no empty word
RECURSIVE str_split_ws(_)
str_split_ws(s) ==
    IF s = <<>> THEN <<>>
    ELSE IF IsSpace(Head(s)) THEN str_split_ws(Tail(s))
    ELSE LET stops == {k \in 1..Len(s) : IsSpace(s[k])}
             n == IF stops = {} THEN Len(s)
                  ELSE (CHOOSE k \in stops : \A m \in stops : k <= m) - 1
         IN <<SubSeq(s, 1, n)>> \o str_split_ws(SubSeq(s, n + 1, Len(s)))

\* sep.join(list)
RECURSIVE str_join(_, _)
str_join(sep, list) ==
    IF list = <<>> THEN <<>>
    ELSE IF Len(list) = 1 THEN list[1]
    ELSE list[1] \o sep \o str_join(sep, Tail(list))

LowerOf ==
    [c \in Range(Upper) |-> Lower[CHOOSE k \in 1..Len(Upper) : Upper[k] = c]]

\* s.lower()
str_lower(s) ==
    [k \in 1..Len(s) |-> IF s[k] \in DOMAIN LowerOf THEN LowerOf[s[k]] ELSE s[k]]

\* str(x) of a cell: a str is itself, the float nan is 'nan'
py_str(x) == IF x = NaN THEN <<"n","a","n">> ELSE x

\* d.get(k, default)
dict_get(d, k, default) == IF k \in DOMAIN d THEN d[k] ELSE default

\* set(list)
py_set(list) == Range(list)

\* Iteration order of a set of str: the order of the hash slots, which the
\* interpreter's hash seed fixes for the life of the process and which
\* differs from one process to the next.
RECURSIVE set_iter(_, _)
set_iter(S, seed) ==
    IF S = {} THEN <<>>
    ELSE LET first == CHOOSE z \in S : \A y \in S : seed[z] <= seed[y]
         IN <<first>> \o set_iter(S \ {first}, seed)

(***************************************************************************)
(* clean_party_name and get_zone.                                          *)
(***************************************************************************)
\* clean_party_name replacing only the first underscore
clean_party_name_count1(value) ==
    LET party == str_split(value, Delim)[1]
        party2 == str_replace_first(party, <<"_">>, <<" ">>)
    IN str_replace(party2, Suffix, <<>>)

\* clean_party_name without the removal of ' O.D.D.'
clean_party_name_keep_suffix(value) ==
    LET party == str_split(value, Delim)[1]
    IN str_replace(party, <<"_">>, <<" ">>)

\* def clean_party_name(value)
clean_party_name(value) ==
    LET party == str_split(value, Delim)[1]
        party2 == str_replace(party, <<"_">>, <<" ">>)
    IN str_replace(party2, Suffix, <<>>)

\* get_zone joining the list of zones, duplicates kept
get_zone_list(serie, mapping, seed) ==
    LET series == str_split_ws(py_str(serie))
        zones == [k \in 1..Len(series) |-> dict_get(mapping, series[k], Unknown)]
    IN str_join(<<" ">>, zones)

\* def get_zone(serie, series_to_zona), in an interpreter of hash seed `seed`
get_zone(serie, mapping, seed) ==
    LET series == str_split_ws(py_str(serie))
        zones == [k \in 1..Len(series) |-> dict_get(mapping, series[k], Unknown)]
    IN str_join(<<" ">>, set_iter(py_set(zones), seed))

(***************************************************************************)
(* pandas: DataFrame, concat, boolean-mask selection, rename, column       *)
(* assignment, drop, to_csv.                                               *)
(***************************************************************************)
DataFrame(cols, rows) == [kind |-> "DataFrame", columns |-> cols, rows |-> rows]

\* the row over the columns cols, NaN where the row has no such column
reindex(row, cols) ==
    [c \in Range(cols) |-> IF c \in DOMAIN row THEN row[c] ELSE NaN]

\* the columns of the frames, each at its first appearance
RECURSIVE concat_columns(_)
concat_columns(frames) ==
    IF frames = <<>> THEN <<>>
    ELSE LET before == concat_columns(SubSeq(frames, 1, Len(frames) - 1))
             last == frames[Len(frames)].columns
         IN before \o SelectSeq(last, LAMBDA c : c \notin Range(before))

RECURSIVE concat_rows(_, _)
concat_rows(frames, cols) ==
    IF frames = <<>> THEN <<>>
    ELSE LET rs == Head(frames).rows
         IN [k \in 1..Len(rs) |-> reindex(rs[k], cols)]
             \o concat_rows(Tail(frames), cols)

\* pd.concat(frames, ignore_index=True)
pd_concat(frames) ==
    LET cols == concat_columns(frames)
    IN DataFrame(cols, concat_rows(frames, cols))

\* df[df[col].str.lower() == value.lower()]: a filter that ignores case
df_select_eq_nocase(df, col, value) ==
    DataFrame(df.columns,
              SelectSeq(df.rows, LAMBDA r : str_lower(r[col]) = str_lower(value)))

\* df[df[col] == value]
df_select_eq(df, col, value) ==
    DataFrame(df.columns, SelectSeq(df.rows, LAMBDA r : r[col] = value))

\* df.rename(columns={old: new}); a missing column is left alone
df_rename(df, old, new) ==
    LET name(c) == IF c = old THEN new ELSE c
    IN DataFrame([k \in 1..Len(df.columns) |-> name(df.columns[k])],
                 [k \in 1..Len(df.rows) |->
                     [c \in {name(d) : d \in DOMAIN df.rows[k]} |->
                         IF c = new /\ old \in DOMAIN df.rows[k]
                         THEN df.rows[k][old] ELSE df.rows[k][c]]])

\* df[col] = values: replaces the column, or appends it as the last column
df_assign(df, col, values) ==
    DataFrame(IF col \in Range(df.columns) THEN df.columns
              ELSE Append(df.columns, col),
              [k \in 1..Len(df.rows) |->
                  [c \in DOMAIN df.rows[k] \cup {col} |->
                      IF c = col THEN values[k] ELSE df.rows[k][c]]])

\* df.drop(columns=[col])
df_drop(df, col) ==
    DataFrame(SelectSeq(df.columns, LAMBDA c : c # col),
              [k \in 1..Len(df.rows) |->
                  [c \in DOMAIN df.rows[k] \ {col} |-> df.rows[k][c]]])

\* df.to_csv(path, index=False): the file holds the header and the rows
to_csv(files, path, df) ==
    [p \in DOMAIN files \cup {path} |-> IF p = path THEN df ELSE files[p]]

\* os.path.join(dir, f'{department.lower()}_odd_<stage>.csv')
OddFiltered == <<"_","o","d","d","_","f","i","l","t","e","r","e","d",".","c","s","v">>
OddCleaned == <<"_","o","d","d","_","c","l","e","a","n","e","d",".","c","s","v">>
OddNoActo == <<"_","o","d","d","_","n","o","_","a","c","t","o",".","c","s","v">>
OddFinal == <<"_","o","d","d","_","f","i","n","a","l",".","c","s","v">>
path_join(dir, name) == [dir |-> dir, name |-> name]
filtered_path(dept) == path_join("output_dir", str_lower(dept) \o OddFiltered)
\* the cleaned artifact saved under the name of the filtered one
cleaned_path_copy(dept) == path_join("output_dir", str_lower(dept) \o OddFiltered)
cleaned_path(dept) == path_join("output_dir", str_lower(dept) \o OddCleaned)
no_acto_path(dept) == path_join("output_dir", str_lower(dept) \o OddNoActo)
final_path(dept) == path_join("final_dir", str_lower(dept) \o OddFinal)
\* os.path.join(mapping_dir, f'mapping_{department.lower()}.json')
mapping_path(dept) ==
    <<"m","a","p","p","i","n","g","_">> \o str_lower(dept) \o <<".","j","s","o","n">>

(***************************************************************************)
(* The inputs the model draws from.                                        *)
(***************************************************************************)
Canelones == <<"C","a","n","e","l","o","n","e","s">>
CANELONES == <<"C","A","N","E","L","O","N","E","S">>
Montevideo == <<"M","o","n","t","e","v","i","d","e","o">>
Costa == <<"C","o","s","t","a">>
CAA == <<"C","A","A">>
CAB == <<"C","A","B">>
ZZZ == <<"Z","Z","Z">>

\* Columns of a spreadsheet (header row 9, columns A:H), without and with
\* ACTO. Every spreadsheet has the provider's layout: CONVOCATORIA, DEPTO and
\* SERIES are present and their cells are str.
SheetColumns == <<"CONVOCATORIA", "DEPTO", "SERIES", "CNT_VOTOS">>
SheetColumnsActo == <<"CONVOCATORIA", "ACTO", "DEPTO", "SERIES", "CNT_VOTOS">>

RowPool ==
    { [CONVOCATORIA |-> <<"F","A","_","-","_","L","1">>, DEPTO |-> Canelones,
       SERIES |-> <<"C","A","A"," ","Z","Z","Z">>, CNT_VOTOS |-> <<"1">>],
      [CONVOCATORIA |-> <<"P","N"," ","O",".","D",".","D",".">>, DEPTO |-> Montevideo,
       SERIES |-> <<"M","A","A">>, CNT_VOTOS |-> <<"2">>] }

with_acto(row) ==
    [c \in DOMAIN row \cup {"ACTO"} |->
        IF c = "ACTO" THEN <<"a","c","t","o">> ELSE row[c]]

SeqsUpTo(S, n) == UNION {[1..m -> S] : m \in 0..n}

RECURSIVE concat_all(_)
concat_all(parts) ==
    IF parts = <<>> THEN <<>> ELSE Head(parts) \o concat_all(Tail(parts))

\* what pd.read_excel returns for a file that parses
Sheets ==
    {DataFrame(SheetColumns, rows) : rows \in SeqsUpTo(RowPool, MaxRows)}
    \cup {DataFrame(SheetColumnsActo, [k \in 1..Len(rows) |-> with_acto(rows[k])]) :
            rows \in SeqsUpTo(RowPool, MaxRows)}

Unreadable == [kind |-> "Unreadable"]

OneCanelonesRow ==
    DataFrame(SheetColumns,
              <<CHOOSE r \in RowPool : r.DEPTO = Canelones>>)

Files ==
    {[name |-> n, content |-> c] :
        n \in {<<"a",".","x","l","s","x">>, <<"b",".","x","l","s","x">>},
        c \in Sheets \cup {Unreadable}}
    \cup {[name |-> <<"c",".","X","L","S","X">>, content |-> OneCanelonesRow]}

\* a directory listing: files of pairwise distinct names, in any order
Listings ==
    {l \in SeqsUpTo(Files, MaxFiles) :
        \A a, b \in 1..Len(l) : a # b => l[a].name # l[b].name}

Departments == {Canelones, CANELONES, Montevideo}

MapCanelones == [c \in {CAA, CAB} |-> Canelones]
MapTwoZones == [c \in {CAA, CAB} |-> IF c = CAA THEN Canelones ELSE Costa]
MapOne == [c \in {CAA} |-> Canelones]
Mappings == {MapCanelones, MapTwoZones, MapOne}

NoFiles == [p \in {} |-> None]
\* mapping_dir holds no mapping of Montevideo, and a mapping of Canelones
\* that is valid JSON or not
MappingDirs ==
    {[p \in {<<"m","a","p","p","i","n","g","_","c","a","n","e","l","o","n","e","s",
               ".","j","s","o","n">>} |-> content] :
        content \in {[kind |-> "JSON", object |-> MapCanelones], Unreadable}}

ZoneNames == {Canelones, Costa, Unknown}
Seeds ==
    {h \in [ZoneNames -> 1..Cardinality(ZoneNames)] :
        \A y, z \in ZoneNames : y # z => h[y] # h[z]}

PartyTokens ==
    { <<"A">>, <<"_">>, <<"-">>, <<" ">>, Delim, Suffix,
      <<"_","O",".","D",".","D",".">>, <<"_","O",".","D">>, <<".","D",".">> }
FrenteAmplioLista ==
    <<"F","r","e","n","t","e","_","A","m","p","l","i","o","_","-","_",
      "L","i","s","t","a","_","7","1","1">>
FrenteAmplio == <<"F","r","e","n","t","e"," ","A","m","p","l","i","o">>
PartidoNacionalODD ==
    <<"P","a","r","t","i","d","o"," ","N","a","c","i","o","n","a","l",
      " ","O",".","D",".","D",".">>
PartidoNacional ==
    <<"P","a","r","t","i","d","o"," ","N","a","c","i","o","n","a","l">>
PartyInputs ==
    {concat_all(t) : t \in SeqsUpTo(PartyTokens, MaxTokens)}
    \cup {FrenteAmplioLista, PartidoNacionalODD}

SeriesTokens == {CAA, CAB, ZZZ, <<" ">>, <<"\t">>}
SeriesInputs ==
    {concat_all(t) : t \in SeqsUpTo(SeriesTokens, MaxSeriesTokens)} \cup {NaN}

(***************************************************************************)
(* Initial states: one per invoked function and input.                     *)
(***************************************************************************)
InitProcess ==
    /\ call = "process_odd_data"
    /\ pc = "load"
    /\ folder \in Listings
    /\ department \in Departments
    /\ mapping_dir \in MappingDirs
    /\ hashseed = None
    /\ i = 1
    /\ all_data = <<>>
    /\ combined_data = None
    /\ department_odd_data = None
    /\ series_to_zona = None
    /\ disk = NoFiles
    /\ writes = <<>>
    /\ stdout = <<>>
    /\ arg = None
    /\ ret = <<>>
    /\ run = 1

InitHelper ==
    /\ pc = "call"
    /\ folder = <<>>
    /\ department = <<>>
    /\ mapping_dir = NoFiles
    /\ i = 1
    /\ all_data = <<>>
    /\ combined_data = None
    /\ department_odd_data = None
    /\ disk = NoFiles
    /\ writes = <<>>
    /\ stdout = <<>>
    /\ ret = <<>>
    /\ run = 1

InitClean ==
    /\ call = "clean_party_name"
    /\ arg \in PartyInputs
    /\ hashseed = None
    /\ series_to_zona = None
    /\ InitHelper

InitZone ==
    /\ call = "get_zone"
    /\ arg \in SeriesInputs
    /\ hashseed \in Seeds
    /\ series_to_zona \in Mappings
    /\ InitHelper

Init == InitProcess \/ InitClean \/ InitZone

(***************************************************************************)
(* load_odd_data: one step per file of os.listdir(odd_folder).             *)
(***************************************************************************)
print(msg, what) == stdout' = Append(stdout, [msg |-> msg, what |-> what])

InLoop == call = "process_odd_data" /\ pc = "load" /\ i <= Len(folder)

\* a name that does not end in '.xlsx' is passed over
LoadSkip ==
    /\ InLoop
    /\ ~str_endswith(folder[i].name, XlsxExt)
    /\ i' = i + 1
    /\ UNCHANGED <<call, pc, folder, department, mapping_dir, hashseed, all_data,
                   combined_data, department_odd_data, series_to_zona, disk,
                   writes, stdout, arg, ret, run>>

\* pd.read_excel succeeds: the table is appended to all_data
LoadRead ==
    /\ InLoop
    /\ str_endswith(folder[i].name, XlsxExt)
    /\ folder[i].content # Unreadable
    /\ all_data' = Append(all_data, folder[i].content)
    /\ i' = i + 1
    /\ UNCHANGED <<call, pc, folder, department, mapping_dir, hashseed,
                   combined_data, department_odd_data, series_to_zona, disk,
                   writes, stdout, arg, ret, run>>

\* a load that gives up at the first file that fails to parse
LoadExceptAbort ==
    /\ InLoop
    /\ str_endswith(folder[i].name, XlsxExt)
    /\ folder[i].content = Unreadable
    /\ print("Error reading file", folder[i].name)
    /\ i' = Len(folder) + 1
    /\ all_data' = <<>>
    /\ UNCHANGED <<call, pc, folder, department, mapping_dir, hashseed,
                   combined_data, department_odd_data, series_to_zona, disk,
                   writes, arg, ret, run>>

\* pd.read_excel raises: the error is printed and the loop goes on
LoadExcept ==
    /\ InLoop
    /\ str_endswith(folder[i].name, XlsxExt)
    /\ folder[i].content = Unreadable
    /\ print("Error reading file", folder[i].name)
    /\ i' = i + 1
    /\ UNCHANGED <<call, pc, folder, department, mapping_dir, hashseed, all_data,
                   combined_data, department_odd_data, series_to_zona, disk,
                   writes, arg, ret, run>>

\* return pd.concat(all_data, ignore_index=True) if all_data else None
LoadReturn ==
    /\ call = "process_odd_data" /\ pc = "load" /\ i > Len(folder)
    /\ combined_data' = IF all_data # <<>> THEN pd_concat(all_data) ELSE None
    /\ pc' = "loaded"
    /\ UNCHANGED <<call, folder, department, mapping_dir, hashseed, i, all_data,
                   department_odd_data, series_to_zona, disk, writes, stdout,
                   arg, ret, run>>

(***************************************************************************)
(* process_odd_data after the load, one step per statement.                *)
(***************************************************************************)
AtStage(p) == call = "process_odd_data" /\ pc = p

\* if combined_data is None: print(...); return
NoData ==
    /\ AtStage("loaded")
    /\ combined_data = None
    /\ print("No valid data found in Excel files.", <<>>)
    /\ pc' = "returned"
    /\ UNCHANGED <<call, folder, department, mapping_dir, hashseed, i, all_data,
                   combined_data, department_odd_data, series_to_zona, disk,
                   writes, arg, ret, run>>

\* department_odd_data = combined_data[combined_data['DEPTO'] == department].copy()
Filter ==
    /\ AtStage("loaded")
    /\ combined_data # None
    /\ department_odd_data' = df_select_eq(combined_data, "DEPTO", department)
    /\ pc' = "save_filtered"
    /\ UNCHANGED <<call, folder, department, mapping_dir, hashseed, i, all_data,
                   combined_data, series_to_zona, disk, writes, stdout, arg, ret,
                   run>>

\* department_odd_data.to_csv(<path>, index=False, encoding='utf-8'), then on
Save(at, path, next) ==
    /\ AtStage(at)
    /\ disk' = to_csv(disk, path, department_odd_data)
    /\ writes' = Append(writes, path)
    /\ pc' = next
    /\ UNCHANGED <<call, folder, department, mapping_dir, hashseed, i, all_data,
                   combined_data, department_odd_data, series_to_zona, stdout,
                   arg, ret, run>>

SaveFiltered == Save("save_filtered", filtered_path(department), "clean")

\* rename CONVOCATORIA to PARTIDO; PARTIDO = PARTIDO.apply(clean_party_name)
Clean ==
    /\ AtStage("clean")
    /\ LET renamed == df_rename(department_odd_data, "CONVOCATORIA", "PARTIDO")
       IN department_odd_data' =
            df_assign(renamed, "PARTIDO",
                      [k \in 1..Len(renamed.rows) |->
                          clean_party_name(renamed.rows[k]["PARTIDO"])])
    /\ pc' = "save_cleaned"
    /\ UNCHANGED <<call, folder, department, mapping_dir, hashseed, i, all_data,
                   combined_data, series_to_zona, disk, writes, stdout, arg, ret,
                   run>>

SaveCleaned == Save("save_cleaned", cleaned_path(department), "acto")

\* if 'ACTO' in department_odd_data.columns: drop it
DropActo ==
    /\ AtStage("acto")
    /\ "ACTO" \in Range(department_odd_data.columns)
    /\ department_odd_data' = df_drop(department_odd_data, "ACTO")
    /\ pc' = "save_no_acto"
    /\ UNCHANGED <<call, folder, department, mapping_dir, hashseed, i, all_data,
                   combined_data, series_to_zona, disk, writes, stdout, arg, ret,
                   run>>

\* no column ACTO: the if is passed over
SkipActo ==
    /\ AtStage("acto")
    /\ "ACTO" \notin Range(department_odd_data.columns)
    /\ pc' = "mapping"
    /\ UNCHANGED <<call, folder, department, mapping_dir, hashseed, i, all_data,
                   combined_data, department_odd_data, series_to_zona, disk,
                   writes, stdout, arg, ret, run>>

SaveNoActo == Save("save_no_acto", no_acto_path(department), "mapping")

\* with open(mapping_file) as f: series_to_zona = json.load(f)
OpenMapping ==
    /\ AtStage("mapping")
    /\ mapping_path(department) \in DOMAIN mapping_dir
    /\ mapping_dir[mapping_path(department)] # Unreadable
    /\ series_to_zona' = mapping_dir[mapping_path(department)].object
    /\ pc' = "zona"
    /\ UNCHANGED <<call, folder, department, mapping_dir, hashseed, i, all_data,
                   combined_data, department_odd_data, disk, writes, stdout, arg,
                   ret, run>>

\* a missing mapping file taken for an empty mapping
OpenMappingFailsDefault ==
    /\ AtStage("mapping")
    /\ mapping_path(department) \notin DOMAIN mapping_dir
    /\ series_to_zona' = [c \in {} |-> Unknown]
    /\ pc' = "zona"
    /\ UNCHANGED <<call, folder, department, mapping_dir, hashseed, i, all_data,
                   combined_data, department_odd_data, disk, writes, stdout, arg,
                   ret, run>>

\* open() raises FileNotFoundError: the exception leaves process_odd_data
OpenMappingFails ==
    /\ AtStage("mapping")
    /\ mapping_path(department) \notin DOMAIN mapping_dir
    /\ pc' = "FileNotFoundError"
    /\ UNCHANGED <<call, folder, department, mapping_dir, hashseed, i, all_data,
                   combined_data, department_odd_data, series_to_zona, disk,
                   writes, stdout, arg, ret, run>>

\* json.load() raises on a file that is not JSON: the exception leaves
\* process_odd_data
OpenMappingInvalid ==
    /\ AtStage("mapping")
    /\ mapping_path(department) \in DOMAIN mapping_dir
    /\ mapping_dir[mapping_path(department)] = Unreadable
    /\ pc' = "JSONDecodeError"
    /\ UNCHANGED <<call, folder, department, mapping_dir, hashseed, i, all_data,
                   combined_data, department_odd_data, series_to_zona, disk,
                   writes, stdout, arg, ret, run>>

\* a zone column whose lookups consume the mapping (dict.pop for dict.get)
RECURSIVE zona_column_pop(_, _, _)
zona_column_pop(rows, mapping, seed) ==
    IF rows = <<>> THEN <<>>
    ELSE LET codes == Range(str_split_ws(py_str(Head(rows)["SERIES"])))
             left == [c \in DOMAIN mapping \ codes |-> mapping[c]]
         IN <<get_zone(Head(rows)["SERIES"], mapping, seed)>>
             \o zona_column_pop(Tail(rows), left, seed)

\* department_odd_data['SERIES'].apply(lambda x: get_zone(x, series_to_zona))
zona_column(rows, mapping, seed) ==
    [k \in 1..Len(rows) |-> get_zone(rows[k]["SERIES"], mapping, seed)]

\* department_odd_data['ZONA'] = ...
\* The interpreter drew its hash seed when it started; nothing reads it before
\* this statement, so the model draws it here, once for all the rows.
AddZona ==
    /\ AtStage("zona")
    /\ hashseed' \in Seeds
    /\ department_odd_data' =
         df_assign(department_odd_data, "ZONA",
                   zona_column(department_odd_data.rows, series_to_zona, hashseed'))
    /\ pc' = "save_final"
    /\ UNCHANGED <<call, folder, department, mapping_dir, i, all_data,
                   combined_data, series_to_zona, disk, writes, stdout, arg, ret,
                   run>>

\* the final to_csv and the report of the saved paths
SaveFinal ==
    /\ AtStage("save_final")
    /\ disk' = to_csv(disk, final_path(department), department_odd_data)
    /\ writes' = Append(writes, final_path(department))
    /\ stdout' =
         stdout
         \o <<[msg |-> "Saved", what |-> filtered_path(department)],
              [msg |-> "Saved", what |-> cleaned_path(department)]>>
         \o (IF "ACTO" \in Range(combined_data.columns)
             THEN <<[msg |-> "Saved", what |-> no_acto_path(department)]>>
             ELSE <<>>)
         \o <<[msg |-> "Saved", what |-> final_path(department)]>>
    /\ pc' = "returned"
    /\ UNCHANGED <<call, folder, department, mapping_dir, hashseed, i, all_data,
                   combined_data, department_odd_data, series_to_zona, arg, ret,
                   run>>

(***************************************************************************)
(* Direct calls of the helpers.                                            *)
(***************************************************************************)
HelperUnchanged ==
    UNCHANGED <<call, pc, folder, department, mapping_dir, i, all_data,
                combined_data, department_odd_data, series_to_zona, disk, writes,
                stdout, arg>>

\* clean_party_name(value)
CallClean ==
    /\ call = "clean_party_name" /\ ret = <<>>
    /\ ret' = <<clean_party_name(arg)>>
    /\ UNCHANGED <<hashseed, run>>
    /\ HelperUnchanged

\* clean_party_name applied to its own result
CallCleanAgain ==
    /\ call = "clean_party_name" /\ Len(ret) = 1
    /\ ret' = Append(ret, clean_party_name(ret[1]))
    /\ UNCHANGED <<hashseed, run>>
    /\ HelperUnchanged

\* get_zone(serie, series_to_zona) in the running interpreter
CallGetZone ==
    /\ call = "get_zone" /\ ret = <<>>
    /\ ret' = <<[run |-> run, zona |-> get_zone(arg, series_to_zona, hashseed)]>>
    /\ UNCHANGED <<hashseed, run>>
    /\ HelperUnchanged

\* between two evaluations the interpreter is started anew: a fresh random
\* str hash seed
Restart ==
    /\ call = "get_zone" /\ Len(ret) = 1 /\ ret[1].run = run
    /\ run' = run + 1
    /\ hashseed' \in Seeds
    /\ UNCHANGED ret
    /\ HelperUnchanged

\* a second evaluation of get_zone on the same series value and mapping
CallGetZoneAgain ==
    /\ call = "get_zone" /\ Len(ret) = 1
    /\ ret' = Append(ret, [run |-> run,
                           zona |-> get_zone(arg, series_to_zona, hashseed)])
    /\ UNCHANGED <<hashseed, run>>
    /\ HelperUnchanged

Next ==
    \/ LoadSkip \/ LoadRead \/ LoadExcept \/ LoadReturn
    \/ NoData \/ Filter \/ SaveFiltered \/ Clean \/ SaveCleaned
    \/ DropActo \/ SkipActo \/ SaveNoActo
    \/ OpenMapping \/ OpenMappingFails \/ OpenMappingInvalid
    \/ AddZona \/ SaveFinal
    \/ CallClean \/ CallCleanAgain
    \/ CallGetZone \/ Restart \/ CallGetZoneAgain

Spec == Init /\ [][Next]_vars

(***************************************************************************)
(* Vocabulary of the properties. These definitions state the expected     *)
(* results in terms of the inputs; they do not go through the operators   *)
(* above that compute the results.                                         *)
(***************************************************************************)
InProcess == call = "process_odd_data"

\* sub occurs in s at position k
OccursAt(s, sub, k) ==
    /\ k \in 1..(Len(s) - Len(sub) + 1)
    /\ \A n \in 1..Len(sub) : s[k + n - 1] = sub[n]
Contains(s, sub) == \E k \in 1..Len(s) : OccursAt(s, sub, k)

\* the n-th smallest member of a set of numbers
NthOf(S, n) == CHOOSE k \in S : Cardinality({m \in S : m <= k}) = n
\* the elements of s at the positions in S, in the order of s
Restrict(s, S) == [n \in 1..Cardinality(S) |-> s[NthOf(S, n)]]

EndsInXlsx(name) ==
    \E stem \in 0..Len(name) :
        /\ Len(name) = stem + 5
        /\ name[stem + 1] = "." /\ name[stem + 2] = "x" /\ name[stem + 3] = "l"
        /\ name[stem + 4] = "s" /\ name[stem + 5] = "x"

\* the files of the listing that end in '.xlsx' and parse
ReadableFiles ==
    {k \in 1..Len(folder) :
        EndsInXlsx(folder[k].name) /\ folder[k].content.kind = "DataFrame"}

\* (file, row) of every row of a readable file
SourceRows ==
    {<<k, r>> : k \in ReadableFiles, r \in 1..MaxRows + 1} \cap
    {fr \in (1..Len(folder)) \X (1..MaxRows + 1) :
        folder[fr[1]].content.kind = "DataFrame"
        /\ fr[2] <= Len(folder[fr[1]].content.rows)}

\* position of a source row in file-enumeration order, then row order
RankOf(fr) ==
    Cardinality({o \in SourceRows :
        o[1] < fr[1] \/ (o[1] = fr[1] /\ o[2] <= fr[2])})

LoadFinished == InProcess /\ pc # "load"
PastFilter ==
    pc \in {"save_filtered", "clean", "save_cleaned", "acto", "save_no_acto",
            "mapping", "zona", "save_final", "FileNotFoundError",
            "JSONDecodeError"}
    \/ (pc = "returned" /\ combined_data # None)
NoOutput == writes = <<>> /\ disk = NoFiles

(***************************************************************************)
(* C1. The table written as the filtered artifact is exactly the           *)
(* sub-sequence of the rows of the combined table whose DEPTO equals the   *)
(* department (case-sensitive): no other row is kept, no matching row is   *)
(* lost, the order is that of the combined table and every field of a kept *)
(* row is unchanged.                                                       *)
(***************************************************************************)
MatchingRows ==
    {k \in 1..Len(combined_data.rows) : combined_data.rows[k]["DEPTO"] = department}

C1_FilteredIsMatchingSubsequence ==
    (InProcess /\ filtered_path(department) \in DOMAIN disk) =>
        LET art == disk[filtered_path(department)]
        IN /\ art.columns = combined_data.columns
           /\ art.rows = Restrict(combined_data.rows, MatchingRows)

C1_Witness ==
    /\ InProcess /\ filtered_path(department) \in DOMAIN disk
    /\ Len(disk[filtered_path(department)].rows) = 1
    /\ Len(combined_data.rows) = 2

(***************************************************************************)
(* C2. With no readable spreadsheet (empty folder, no name ending in       *)
(* '.xlsx', or every '.xlsx' failing to parse) load_odd_data returns None  *)
(* and process_odd_data stops before the filter: no output file is ever    *)
(* written.                                                                *)
(***************************************************************************)
C2_NoReadableFileNoOutput ==
    (InProcess /\ ReadableFiles = {}) =>
        /\ NoOutput
        /\ ~PastFilter
        /\ department_odd_data = None
        /\ LoadFinished => combined_data = None
        /\ pc = "returned" =>
             stdout[Len(stdout)].msg = "No valid data found in Excel files."

C2_Witness ==
    /\ InProcess /\ pc = "returned" /\ ReadableFiles = {}
    /\ Len(folder) = 2
    /\ \E k \in 1..Len(folder) : folder[k].content = Unreadable
    /\ \E k \in 1..Len(folder) : ~EndsInXlsx(folder[k].name)

(***************************************************************************)
(* C3. Whenever the readable files hold no row at all (also when '.xlsx'   *)
(* files parse but each has zero rows) the pipeline halts before the       *)
(* filter with the no-data outcome and writes no output file.              *)
(***************************************************************************)
C3_NoRowsNoOutput ==
    (InProcess /\ SourceRows = {}) =>
        /\ NoOutput
        /\ pc = "returned" =>
             stdout[Len(stdout)].msg = "No valid data found in Excel files."

(***************************************************************************)
(* C4. If the mapping file of the department is missing or unreadable, the *)
(* run fails at the enrichment stage: no ZONA column is ever computed and  *)
(* the final artifact is never written, while the filtered and cleaned     *)
(* artifacts (and no_acto when there was an ACTO column) written before    *)
(* the failure remain written.                                             *)
(***************************************************************************)
MappingFileName ==
    <<"m","a","p","p","i","n","g","_">> \o str_lower(department)
        \o <<".","j","s","o","n">>

MappingMissing ==
    \A p \in DOMAIN mapping_dir :
        p = MappingFileName => mapping_dir[p] = Unreadable

HadActo == "ACTO" \in Range(combined_data.columns)

C4_MissingMappingFailsAtEnrichment ==
    (InProcess /\ MappingMissing) =>
        /\ final_path(department) \notin DOMAIN disk
        /\ pc \notin {"zona", "save_final"}
        /\ department_odd_data # None =>
             "ZONA" \notin Range(department_odd_data.columns)
        /\ PastFilter /\ pc \notin {"save_filtered", "clean", "save_cleaned",
                                    "acto", "save_no_acto", "mapping"}
             => /\ pc = IF MappingFileName \in DOMAIN mapping_dir
                        THEN "JSONDecodeError" ELSE "FileNotFoundError"
                /\ writes = <<filtered_path(department), cleaned_path(department)>>
                            \o (IF HadActo THEN <<no_acto_path(department)>>
                                ELSE <<>>)
                /\ DOMAIN disk = Range(writes)

C4_Witness ==
    /\ InProcess /\ MappingMissing /\ pc = "FileNotFoundError"
    /\ Len(writes) = 3 /\ DOMAIN disk = Range(writes)
    /\ Len(disk[cleaned_path(department)].rows) > 0

AppliedTwice == call = "clean_party_name" /\ Len(ret) = 2

C6_IdempotentWithoutDelimAndSuffix ==
    (AppliedTwice /\ ~Contains(arg, Delim) /\ ~Contains(arg, Suffix)) =>
        ret[2] = ret[1]

(***************************************************************************)
(* C6 as amended: for any s that contains no '_-_' and that, once its      *)
(* underscores are read as spaces, contains no ' O.D.D.',                  *)
(* clean_party_name(clean_party_name(s)) = clean_party_name(s).            *)
(***************************************************************************)
UnderscoresAsSpaces(s) == [k \in 1..Len(s) |-> IF s[k] = "_" THEN " " ELSE s[k]]

C6_IdempotentOnCleanValues ==
    (AppliedTwice /\ ~Contains(arg, Delim)
       /\ ~Contains(UnderscoresAsSpaces(arg), Suffix)) =>
        ret[2] = ret[1]

C6_Witness ==
    /\ AppliedTwice /\ ~Contains(arg, Delim)
    /\ ~Contains(UnderscoresAsSpaces(arg), Suffix)
    /\ Contains(arg, <<"_">>) /\ Contains(arg, <<".","D",".">>)
    /\ ret[1] # arg /\ ret[2] = ret[1]

(***************************************************************************)
(* C7. clean_party_name(s) is: the part of s before the first '_-_' (all   *)
(* of s when there is none), with every underscore replaced by a space,    *)
(* then with every occurrence of ' O.D.D.' removed; 'Frente_Amplio_-_      *)
(* Lista_711' gives 'Frente Amplio', 'Partido Nacional O.D.D.' gives       *)
(* 'Partido Nacional'; and the cleaned artifact holds this result in       *)
(* PARTIDO for every row.                                                  *)
(***************************************************************************)
BeforeFirstDelim(s) ==
    IF Contains(s, Delim)
    THEN LET at == CHOOSE k \in 1..Len(s) :
                      /\ OccursAt(s, Delim, k)
                      /\ \A m \in 1..(k - 1) : ~OccursAt(s, Delim, m)
         IN [k \in 1..(at - 1) |-> s[k]]
    ELSE s

\* s without the characters that lie inside an occurrence of sub
WithoutOccurrences(s, sub) ==
    Restrict(s, {k \in 1..Len(s) :
                    ~\E o \in 1..Len(s) :
                        OccursAt(s, sub, o) /\ o <= k /\ k < o + Len(sub)})

CleanReference(s) ==
    WithoutOccurrences(UnderscoresAsSpaces(BeforeFirstDelim(s)), Suffix)

C7_CleanMatchesReference ==
    /\ (call = "clean_party_name" /\ Len(ret) >= 1) =>
          /\ ret[1] = CleanReference(arg)
          /\ arg = FrenteAmplioLista => ret[1] = FrenteAmplio
          /\ arg = PartidoNacionalODD => ret[1] = PartidoNacional
    /\ (InProcess /\ cleaned_path(department) \in DOMAIN disk) =>
          LET before == disk[filtered_path(department)].rows
              after == disk[cleaned_path(department)].rows
          IN /\ Len(after) = Len(before)
             /\ \A k \in 1..Len(after) :
                  after[k]["PARTIDO"] = CleanReference(before[k]["CONVOCATORIA"])

C7_Witness ==
    /\ call = "clean_party_name" /\ Len(ret) >= 1
    /\ Contains(arg, Delim) /\ Contains(arg, <<"_","O",".","D",".","D",".">>)
    /\ ~Contains(BeforeFirstDelim(arg), Suffix)
    /\ Len(ret[1]) < Len(BeforeFirstDelim(arg))

(***************************************************************************)
(* C8. The string returned by get_zone is the single-space join of the     *)
(* set {mapping[c] if c is a key, else 'Unknown' : c a whitespace-         *)
(* separated code of the series value}: each distinct zone name occurs     *)
(* exactly once, an absent code gives 'Unknown', and no other name         *)
(* occurs; 'CAA CAB' with both codes mapped to 'Canelones' gives           *)
(* 'Canelones'.                                                            *)
(***************************************************************************)
SeriesText(x) == IF x = NaN THEN <<"n","a","n">> ELSE x

\* the maximal runs of non-whitespace characters of s
WordsOf(s) ==
    {SubSeq(s, ab[1], ab[2]) :
        ab \in {p \in (1..Len(s)) \X (1..Len(s)) :
                  /\ p[1] <= p[2]
                  /\ \A k \in p[1]..p[2] : s[k] \notin {" ", "\t", "\n"}
                  /\ p[1] = 1 \/ s[p[1] - 1] \in {" ", "\t", "\n"}
                  /\ p[2] = Len(s) \/ s[p[2] + 1] \in {" ", "\t", "\n"}}}

ZonesOf(x, mapping) ==
    {IF c \in DOMAIN mapping THEN mapping[c] ELSE Unknown :
        c \in WordsOf(SeriesText(x))}

\* the names of a ZONA string: its parts between single spaces
NamesIn(zona) ==
    LET cuts == {0, Len(zona) + 1} \cup {k \in 1..Len(zona) : zona[k] = " "}
    IN [n \in 1..(Cardinality(cuts) - 1) |->
           SubSeq(zona, NthOf(cuts, n) + 1, NthOf(cuts, n + 1) - 1)]

\* zona is a single-space join of the set Z, each member once
IsJoinOfSet(zona, Z) ==
    IF Z = {} THEN zona = <<>>
    ELSE /\ Len(NamesIn(zona)) = Cardinality(Z)
         /\ Range(NamesIn(zona)) = Z

C8_ZonaIsJoinOfZoneSet ==
    /\ call = "get_zone" =>
          \A n \in 1..Len(ret) :
              /\ IsJoinOfSet(ret[n].zona, ZonesOf(arg, series_to_zona))
              /\ (arg = <<"C","A","A"," ","C","A","B">>
                    /\ series_to_zona = MapCanelones) => ret[n].zona = Canelones
    /\ (InProcess /\ final_path(department) \in DOMAIN disk) =>
          LET rows == disk[final_path(department)].rows
          IN \A k \in 1..Len(rows) :
                 IsJoinOfSet(rows[k]["ZONA"],
                             ZonesOf(rows[k]["SERIES"], series_to_zona))

C8_Witness ==
    /\ call = "get_zone" /\ Len(ret) >= 1
    /\ arg = <<"C","A","A"," ","C","A","B">>
    /\ series_to_zona = MapCanelones
    /\ ret[1].zona = Canelones

(***************************************************************************)
(* C9. In every run that loads at least one file and finds the mapping     *)
(* file (also when the filter matched no row) the artifacts are written in *)
(* the order filtered, cleaned, no_acto, final, no_acto being written if   *)
(* and only if the table has a column ACTO; each artifact is written after *)
(* its own stage's transform and before the next stage's transform, and    *)
(* the four file names are pairwise distinct.                              *)
(***************************************************************************)
ArtifactOrder ==
    <<filtered_path(department), cleaned_path(department)>>
    \o (IF HadActo THEN <<no_acto_path(department)>> ELSE <<>>)
    \o <<final_path(department)>>

ColumnsOf(path) == Range(disk[path].columns)

C9_ArtifactsInStageOrder ==
    (InProcess /\ combined_data # None /\ ~MappingMissing) =>
        /\ Len(writes) <= Len(ArtifactOrder)
        /\ writes = SubSeq(ArtifactOrder, 1, Len(writes))
        /\ DOMAIN disk = Range(writes)
        /\ Cardinality({filtered_path(department), cleaned_path(department),
                        no_acto_path(department), final_path(department)}) = 4
        /\ pc = "returned" => writes = ArtifactOrder
        \* written after the own transform and before the next one
        /\ Len(writes) = 0 <=> pc \in {"loaded", "save_filtered"}
        /\ Len(writes) = 1 <=> pc \in {"clean", "save_cleaned"}
        /\ pc \in {"acto", "save_no_acto"} => Len(writes) = 2
        /\ pc \in {"mapping", "zona", "save_final"} =>
             Len(writes) = Len(ArtifactOrder) - 1
        /\ filtered_path(department) \in DOMAIN disk =>
             /\ "CONVOCATORIA" \in ColumnsOf(filtered_path(department))
             /\ "PARTIDO" \notin ColumnsOf(filtered_path(department))
        /\ cleaned_path(department) \in DOMAIN disk =>
             /\ "PARTIDO" \in ColumnsOf(cleaned_path(department))
             /\ "CONVOCATORIA" \notin ColumnsOf(cleaned_path(department))
             /\ "ACTO" \in ColumnsOf(cleaned_path(department)) <=> HadActo
             /\ "ZONA" \notin ColumnsOf(cleaned_path(department))
        /\ no_acto_path(department) \in DOMAIN disk =>
             /\ HadActo
             /\ ColumnsOf(no_acto_path(department))
                  = ColumnsOf(cleaned_path(department)) \ {"ACTO"}
        /\ final_path(department) \in DOMAIN disk =>
             /\ ColumnsOf(final_path(department))
                  = (ColumnsOf(cleaned_path(department)) \ {"ACTO"}) \cup {"ZONA"}

C9_Witness ==
    /\ InProcess /\ pc = "returned" /\ ~MappingMissing
    /\ Len(writes) = 4
    /\ Len(combined_data.rows) > 0
    /\ disk[filtered_path(department)].rows = <<>>

(***************************************************************************)
(* C10. As stated: for a fixed series value and a fixed mapping, any two   *)
(* evaluations of get_zone (in one run or in two runs) return the same     *)
(* string, also when the codes map to two or more distinct zones.          *)
(***************************************************************************)
C10_SameInputSameZona ==
    call = "get_zone" =>
        \A a, b \in 1..Len(ret) : ret[a].zona = ret[b].zona

(***************************************************************************)
(* C10 as amended: for a fixed series value and a fixed mapping, two       *)
(* evaluations in the same interpreter process (two rows of one run among  *)
(* them) return the same string, and any two evaluations return the same   *)
(* set of zone names, hence the same string when the codes map to at most  *)
(* one distinct zone; with two or more distinct zones the order of the     *)
(* names may differ between processes.                                     *)
(***************************************************************************)
C10_ZonaFixedUpToOrderAcrossRuns ==
    /\ (call = "get_zone" /\ Len(ret) = 2) =>
          /\ ret[1].run = ret[2].run => ret[1].zona = ret[2].zona
          /\ Range(NamesIn(ret[1].zona)) = Range(NamesIn(ret[2].zona))
          /\ Cardinality(ZonesOf(arg, series_to_zona)) <= 1
               => ret[1].zona = ret[2].zona
    /\ (InProcess /\ final_path(department) \in DOMAIN disk) =>
          LET rows == disk[final_path(department)].rows
          IN \A a, b \in 1..Len(rows) :
                 rows[a]["SERIES"] = rows[b]["SERIES"]
                     => rows[a]["ZONA"] = rows[b]["ZONA"]

C10_Witness ==
    /\ call = "get_zone" /\ Len(ret) = 2
    /\ ret[1].run # ret[2].run
    /\ Cardinality(ZonesOf(arg, series_to_zona)) = 2
    /\ ret[1].zona # ret[2].zona
    /\ Range(NamesIn(ret[1].zona)) = Range(NamesIn(ret[2].zona))

====
